---- MODULE Spec2Model ----
(***************************************************************************)
(* Model of scripts/python/generate_users.py: the allocation of users to   *)
(* departments and roles, the derivation of unique SamAccountNames, and    *)
(* the password generator.                                                 *)
(*                                                                         *)
(* A Python str is a sequence of one-character strings.  The module-level  *)
(* configuration (TOTAL_USERS, DEPARTMENTS, ROLE_DISTRIBUTION) and the     *)
(* names the Faker source can return are chosen in the initial state.      *)
(***************************************************************************)
EXTENDS Integers, Sequences, FiniteSets, TLC

VARIABLES
    TOTAL_USERS,        \* int
    DEPARTMENTS,        \* list of department names
    ROLE_DISTRIBUTION,  \* [Managers |-> int, Contractors |-> int]
    fake,               \* [first |-> set of str, last |-> set of str]
    pc,                 \* position in generate_users
    dept_counts,        \* list of [dept, count]
    dept_idx,           \* index of the outer for loop (1-based)
    role_assignments,   \* list of [role_ou, role_title] of the current dept
    role_idx,           \* index of the inner for loop (1-based)
    users,              \* list of user dicts
    existing_sams,      \* set of issued SamAccountNames
    result,             \* value returned by generate_users
    length,             \* argument of generate_password
    pw_pc,              \* position in generate_password
    password,           \* the local list `password`
    pw_result           \* value returned by generate_password

run_vars == <<TOTAL_USERS, DEPARTMENTS, ROLE_DISTRIBUTION, fake, pc, dept_counts,
              dept_idx, role_assignments, role_idx, users, existing_sams, result>>
pw_vars == <<length, pw_pc, password, pw_result>>
vars == <<run_vars, pw_vars>>

-----------------------------------------------------------------------------
(* Bounds of the model *)

MaxTotal == 4
MaxUnits == 2
MaxQuota == 1
MaxCalls == 11
MaxPwLen == 6
MaxDraws == 2
MaxK == 25

-----------------------------------------------------------------------------
(* Python helpers *)

Min(a, b) == IF a < b THEN a ELSE b
Max(a, b) == IF a > b THEN a ELSE b
Range(s) == {s[i] : i \in 1..Len(s)}

ascii_lowercase == <<"a","b","c","d","e","f","g","h","i","j","k","l","m",
                     "n","o","p","q","r","s","t","u","v","w","x","y","z">>
ascii_uppercase == <<"A","B","C","D","E","F","G","H","I","J","K","L","M",
                     "N","O","P","Q","R","S","T","U","V","W","X","Y","Z">>
digits == <<"0","1","2","3","4","5","6","7","8","9">>
symbols == <<"!","@","#","$","%">>
ascii_letters == ascii_lowercase \o ascii_uppercase

\* s[:n]
SliceTo(s, n) ==
    LET m == IF n < 0 THEN Max(Len(s) + n, 0) ELSE Min(n, Len(s))
    IN  SubSeq(s, 1, m)

UpperSet == Range(ascii_uppercase)
LowerSet == Range(ascii_lowercase)
DigitSet == Range(digits)
SymbolSet == Range(symbols)
AlnumSet == Range(ascii_letters) \cup DigitSet

\* c.lower() for one character
LowerChar(c) ==
    IF c \in UpperSet
    THEN ascii_lowercase[CHOOSE i \in 1..Len(ascii_uppercase) : ascii_uppercase[i] = c]
    ELSE c

\* s.lower()
Lower(s) == [i \in 1..Len(s) |-> LowerChar(s[i])]

\* c.isalnum()
IsAlnum(c) == c \in AlnumSet

\* str(n) for n >= 0
RECURSIVE Str(_)
Str(n) == IF n < 10 THEN <<digits[n + 1]>> ELSE Str(n \div 10) \o <<digits[(n % 10) + 1]>>

\* [x] * n
Repeat(x, n) == IF n > 0 THEN [i \in 1..n |-> x] ELSE <<>>

-----------------------------------------------------------------------------
(* generate_sam_account_name *)

MaxSamLen == 20

\* lines 51-52: the candidate base
SamBase(first_name, last_name) ==
    LET base == Lower(<<first_name[1]>> \o last_name)
    IN  SliceTo(SelectSeq(base, IsAlnum), MaxSamLen)

\* Variants of the while loop used to test the sensitivity of the properties.
RECURSIVE SamLoopDropTail(_, _, _, _)
SamLoopDropTail(base, sam, counter, existing) ==
    IF sam \in existing
    THEN LET suffix == Str(counter)
         IN  SamLoopDropTail(base, SliceTo(base, Max(Len(base) - Len(suffix), 0)) \o suffix,
                             counter + 1, existing)
    ELSE sam

SamLoopNoCheck(base, sam, counter, existing) == sam

\* lines 55-59: the while loop, entered with the locals sam and counter
RECURSIVE SamLoop(_, _, _, _)
SamLoop(base, sam, counter, existing) ==
    IF sam \in existing
    THEN LET suffix == Str(counter)
         IN  SamLoop(base, SliceTo(base, MaxSamLen - Len(suffix)) \o suffix,
                     counter + 1, existing)
    ELSE sam

generate_sam_account_name(first_name, last_name, existing) ==
    LET base == SamBase(first_name, last_name)
    IN  SamLoop(base, base, 1, existing)

-----------------------------------------------------------------------------
(* generate_users *)

DepartmentNames == <<"HR", "IT", "Legal", "Finance", "Marketing", "Operations">>

DeptCountsOffByOne(total, depts) ==
    LET base_per_dept == total \div Len(depts)
        remainder == total % Len(depts)
    IN  [i \in 1..Len(depts) |->
            [dept |-> depts[i],
             count |-> base_per_dept + (IF (i - 1) <= remainder THEN 1 ELSE 0)]]

\* lines 69-74; enumerate() counts from 0, sequences here from 1
DeptCounts(total, depts) ==
    LET base_per_dept == total \div Len(depts)
        remainder == total % Len(depts)
    IN  [i \in 1..Len(depts) |->
            [dept |-> depts[i],
             count |-> base_per_dept + (IF (i - 1) < remainder THEN 1 ELSE 0)]]

\* lines 78-86
RoleAssignments(dept_count, roles) ==
    LET managers == roles.Managers
        contractors == roles.Contractors
        employees == dept_count - managers - contractors
    IN  Repeat([role_ou |-> "Managers", role_title |-> "Manager"], managers)
        \o Repeat([role_ou |-> "Employees", role_title |-> "Employee"], employees)
        \o Repeat([role_ou |-> "Contractors", role_title |-> "Contractor"], contractors)

\* Names the Faker source may return.
John == <<"J","o","h","n">>
Smith == <<"S","m","i","t","h">>
Smith1 == <<"S","m","i","t","h","1">>
OHara == <<"O","'","H","a","r","a">>
Wolfeschlegelsteinhausen ==
    <<"W","o","l","f","e","s","c","h","l","e","g","e","l","s","t","e",
      "i","n","h","a","u","s","e","n">>
Hyphen == <<"-">>
Apostrophe == <<"'">>

NamePools ==
    { [first |-> {John}, last |-> {Smith, Smith1}],
      [first |-> {John}, last |-> {Wolfeschlegelsteinhausen, OHara}],
      [first |-> {Hyphen}, last |-> {Apostrophe, Smith}] }

PwIdle ==
    /\ length = 0
    /\ pw_pc = "idle"
    /\ password = <<>>
    /\ pw_result = <<>>

RunLocals ==
    /\ dept_counts = <<>>
    /\ dept_idx = 0
    /\ role_assignments = <<>>
    /\ role_idx = 0
    /\ users = <<>>
    /\ existing_sams = {}
    /\ result = <<>>

\* The configurations swept: every total, unit list and role quota in the bounds.
Init ==
    /\ TOTAL_USERS \in 1..MaxTotal
    /\ DEPARTMENTS \in {SubSeq(DepartmentNames, 1, n) : n \in 1..MaxUnits}
    /\ ROLE_DISTRIBUTION \in [Managers : 0..MaxQuota, Contractors : 0..MaxQuota]
    /\ fake \in NamePools
    /\ pc = "start"
    /\ RunLocals
    /\ PwIdle

\* One department without quotas and a long run of users.
InitResolve ==
    /\ TOTAL_USERS = MaxCalls
    /\ DEPARTMENTS = SubSeq(DepartmentNames, 1, 1)
    /\ ROLE_DISTRIBUTION = [Managers |-> 0, Contractors |-> 0]
    /\ fake \in NamePools
    /\ pc = "start"
    /\ RunLocals
    /\ PwIdle

\* lines 64-74
Allocate ==
    /\ pc = "start"
    /\ users' = <<>>
    /\ existing_sams' = {}
    /\ dept_counts' = DeptCounts(TOTAL_USERS, DEPARTMENTS)
    /\ dept_idx' = 1
    /\ pc' = "dept_loop"
    /\ UNCHANGED <<TOTAL_USERS, DEPARTMENTS, ROLE_DISTRIBUTION, fake,
                   role_assignments, role_idx, result, pw_vars>>

\* lines 76-86: the next department of the outer loop
NextDept ==
    /\ pc = "dept_loop"
    /\ dept_idx <= Len(dept_counts)
    /\ role_assignments' = RoleAssignments(dept_counts[dept_idx].count, ROLE_DISTRIBUTION)
    /\ role_idx' = 1
    /\ pc' = "role_loop"
    /\ UNCHANGED <<TOTAL_USERS, DEPARTMENTS, ROLE_DISTRIBUTION, fake, dept_counts,
                   dept_idx, users, existing_sams, result, pw_vars>>

\* lines 88-111: one iteration of the inner loop.  The fields DisplayName, UPN,
\* OUPath and Enabled are functions of the fields kept here; Password is the
\* result of generate_password, modelled by the Pw actions.
EmitUser ==
    /\ pc = "role_loop"
    /\ role_idx <= Len(role_assignments)
    /\ \E first_name \in fake.first, last_name \in fake.last :
          LET sam == generate_sam_account_name(first_name, last_name, existing_sams)
          IN  /\ existing_sams' = existing_sams \cup {sam}
              /\ users' = Append(users,
                              [FirstName |-> first_name,
                               LastName |-> last_name,
                               SamAccountName |-> sam,
                               Department |-> dept_counts[dept_idx].dept,
                               Role |-> role_assignments[role_idx].role_title])
    /\ role_idx' = role_idx + 1
    /\ UNCHANGED <<TOTAL_USERS, DEPARTMENTS, ROLE_DISTRIBUTION, fake, pc, dept_counts,
                   dept_idx, role_assignments, result, pw_vars>>

\* line 88: the inner loop is exhausted
EndDept ==
    /\ pc = "role_loop"
    /\ role_idx > Len(role_assignments)
    /\ dept_idx' = dept_idx + 1
    /\ pc' = "dept_loop"
    /\ UNCHANGED <<TOTAL_USERS, DEPARTMENTS, ROLE_DISTRIBUTION, fake, dept_counts,
                   role_assignments, role_idx, users, existing_sams, result, pw_vars>>

\* line 113
Return ==
    /\ pc = "dept_loop"
    /\ dept_idx > Len(dept_counts)
    /\ result' = users
    /\ pc' = "returned"
    /\ UNCHANGED <<TOTAL_USERS, DEPARTMENTS, ROLE_DISTRIBUTION, fake, dept_counts,
                   dept_idx, role_assignments, role_idx, users, existing_sams, pw_vars>>

Next == Allocate \/ NextDept \/ EmitUser \/ EndDept \/ Return

Spec == Init /\ [][Next]_vars

SpecResolve == InitResolve /\ [][Next]_vars

-----------------------------------------------------------------------------
(* generate_password *)

\* The values of random.choice(seq) explored.
Draws(seq) == {seq[i] : i \in 1..Min(MaxDraws, Len(seq))}

\* line 36: chars = ascii_letters + digits + "!@#$%"; the draws explored keep
\* characters of every class.
CharsDraws ==
    Draws(ascii_lowercase) \cup Draws(ascii_uppercase) \cup Draws(digits) \cup Draws(symbols)

\* len(range(n))
RangeLen(n) == IF n > 0 THEN n ELSE 0

InitPassword ==
    /\ length \in 0..MaxPwLen
    /\ pw_pc = "start"
    /\ password = <<>>
    /\ pw_result = <<>>
    /\ TOTAL_USERS = 0
    /\ DEPARTMENTS = <<>>
    /\ ROLE_DISTRIBUTION = [Managers |-> 0, Contractors |-> 0]
    /\ fake = [first |-> {}, last |-> {}]
    /\ pc = "idle"
    /\ RunLocals

\* lines 38-43
PwSeed ==
    /\ pw_pc = "start"
    /\ \E u \in Draws(ascii_uppercase), l \in Draws(ascii_lowercase),
          d \in Draws(digits), s \in Draws(symbols) :
          password' = <<u, l, d, s>>
    /\ pw_pc' = "fill"
    /\ UNCHANGED <<length, pw_result, run_vars>>

\* line 44
PwFill ==
    /\ pw_pc = "fill"
    /\ \E extra \in [1..RangeLen(length - 4) -> CharsDraws] :
          password' = password \o extra
    /\ pw_pc' = "shuffle"
    /\ UNCHANGED <<length, pw_result, run_vars>>

\* line 45: random.shuffle leaves any permutation of the list
PwShuffle ==
    /\ pw_pc = "shuffle"
    /\ \E p \in Permutations(1..Len(password)) :
          password' = [i \in 1..Len(password) |-> password[p[i]]]
    /\ pw_pc' = "join"
    /\ UNCHANGED <<length, pw_result, run_vars>>

\* line 46: "".join of one-character strings
PwReturn ==
    /\ pw_pc = "join"
    /\ pw_result' = password
    /\ pw_pc' = "returned"
    /\ UNCHANGED <<length, password, run_vars>>

NextPassword == PwSeed \/ PwFill \/ PwShuffle \/ PwReturn

SpecPassword == InitPassword /\ [][NextPassword]_vars

-----------------------------------------------------------------------------
(* Properties *)

Sams(n) == {users[i].SamAccountName : i \in 1..n}
BaseOf(u) == SamBase(u.FirstName, u.LastName)
Counts == [i \in 1..Len(dept_counts) |-> dept_counts[i].count]

RECURSIVE SumSeq(_)
SumSeq(s) == IF s = <<>> THEN 0 ELSE s[1] + SumSeq(Tail(s))

\* C1: after any prefix of the generation pass no two emitted records share a
\* SamAccountName: the number of distinct SamAccountNames equals the number
\* of records.
C1UniqueLoginIds == Cardinality(Sams(Len(users))) = Len(users)

\* A repeated name has been resolved, and a later base equal to an earlier
\* suffixed id has been resolved too.
C1Witness ==
    /\ \E i, j \in 1..Len(users) : i < j /\ BaseOf(users[i]) = BaseOf(users[j])
    /\ \E i, j \in 1..Len(users) :
          /\ i < j
          /\ users[i].SamAccountName # BaseOf(users[i])
          /\ BaseOf(users[j]) = users[i].SamAccountName

\* C2: the per-unit counts sum to TOTAL_USERS, differ by at most 1, and exactly
\* the first (TOTAL_USERS mod N) units in input order get floor(TOTAL_USERS / N) + 1
\* while the rest get floor(TOTAL_USERS / N); for 100 users and 6 units the counts
\* are 17,17,17,17,16,16.
C2FrontLoadedAllocation ==
    /\ pc \notin {"start", "idle"} =>
          LET N == Len(DEPARTMENTS)
          IN  /\ Len(dept_counts) = N
              /\ \A i \in 1..N : dept_counts[i].dept = DEPARTMENTS[i]
              /\ SumSeq(Counts) = TOTAL_USERS
              /\ \A i, j \in 1..N : Counts[i] - Counts[j] <= 1
              /\ \A i \in 1..N :
                    Counts[i] = (TOTAL_USERS \div N) + (IF i <= TOTAL_USERS % N THEN 1 ELSE 0)
    /\ LET c == DeptCounts(100, DepartmentNames)
       IN  [i \in 1..Len(c) |-> c[i].count] = <<17, 17, 17, 17, 16, 16>>

\* An allocation with a remainder: some units get the extra user, some do not.
C2Witness ==
    /\ pc \notin {"start", "idle"}
    /\ Len(dept_counts) >= 2
    /\ TOTAL_USERS % Len(DEPARTMENTS) > 0
    /\ \E i, j \in 1..Len(dept_counts) : Counts[i] = Counts[j] + 1

\* Some unit's allocated count is smaller than Managers + Contractors.
UnderQuota ==
    \E i \in 1..Len(dept_counts) :
        dept_counts[i].count < ROLE_DISTRIBUTION.Managers + ROLE_DISTRIBUTION.Contractors

\* C3: a generation run that returns (the only way it ends other than by a
\* signalled error) returns a record sequence of length exactly TOTAL_USERS.
C3ExactPopulation == pc = "returned" => Len(result) = TOTAL_USERS

\* What the code does guarantee: when every unit's count covers the quota, the
\* returned sequence has exactly TOTAL_USERS records.
ExactPopulationWhenQuotaFits ==
    (pc = "returned" /\ ~UnderQuota) => Len(result) = TOTAL_USERS

\* C4: if any unit's allocated count is smaller than Managers + Contractors the
\* run fails with InvalidAllocation: it emits no record for such a unit and does
\* not return.
C4InvalidAllocationSignalled ==
    UnderQuota =>
        /\ pc # "returned"
        /\ \A i \in 1..Len(users) : \A d \in 1..Len(dept_counts) :
              users[i].Department = dept_counts[d].dept =>
                 dept_counts[d].count
                    >= ROLE_DISTRIBUTION.Managers + ROLE_DISTRIBUTION.Contractors

\* The candidate for collision counter k as the source computes it: the base cut
\* to 20 - len(str(k)) characters (kept whole when shorter), then str(k).
CutCandidate(base, k) ==
    SubSeq(base, 1, Min(Len(base), 20 - Len(Str(k)))) \o Str(k)

\* The candidate for collision counter k as C5 states it: exactly len(str(k))
\* characters removed from the tail of the base, then str(k).
DropCandidate(base, k) ==
    SubSeq(base, 1, Len(base) - Len(Str(k))) \o Str(k)

jsmith == <<"j","s","m","i","t","h">>

\* C5 (as stated): a record whose candidate base is already issued gets the base
\* with exactly len(str(k)) characters removed from its tail followed by str(k),
\* for the smallest k >= 1 whose result is not issued; the second of two records
\* with base "jsmith" gets "jsmit1".
C5DropsSuffixLength ==
    \A i \in 1..Len(users) :
        LET before == Sams(i - 1)
            base == BaseOf(users[i])
        IN  base \in before =>
               \E k \in 1..MaxK :
                  /\ users[i].SamAccountName = DropCandidate(base, k)
                  /\ DropCandidate(base, k) \notin before
                  /\ \A j \in 1..(k - 1) : DropCandidate(base, j) \in before

\* C5 (amended): a record whose candidate base is already issued gets the first
\* 20 - len(str(k)) characters of the base (the whole base when it is that short)
\* followed by str(k), for the smallest k >= 1 whose result is not issued; the
\* first of two records with base "jsmith" gets "jsmith", the second "jsmith1".
C5CutsToCap ==
    /\ \A i \in 1..Len(users) :
          LET before == Sams(i - 1)
              base == BaseOf(users[i])
          IN  IF base \in before
              THEN \E k \in 1..MaxK :
                      /\ users[i].SamAccountName = CutCandidate(base, k)
                      /\ CutCandidate(base, k) \notin before
                      /\ \A j \in 1..(k - 1) : CutCandidate(base, j) \in before
              ELSE users[i].SamAccountName = base
    /\ (Len(users) >= 2 /\ BaseOf(users[1]) = jsmith /\ BaseOf(users[2]) = jsmith) =>
          /\ users[1].SamAccountName = jsmith
          /\ users[2].SamAccountName = jsmith \o <<"1">>

\* Two records with base "jsmith" have been emitted, one after the other.
C5Witness ==
    /\ Len(users) >= 2
    /\ BaseOf(users[1]) = jsmith
    /\ BaseOf(users[2]) = jsmith
    /\ users[2].SamAccountName = <<"j","s","m","i","t","h","1">>

\* C8: the empty string is never issued as a SamAccountName nor added to the
\* set of issued names (an empty candidate base fails with EmptyIdentifierBase).
C8NoEmptyLoginId ==
    /\ <<>> \notin existing_sams
    /\ \A i \in 1..Len(users) : users[i].SamAccountName # <<>>

\* Every SamAccountName issued is at most 20 characters long, whatever the name
\* length and the names issued before, also when the collision counter has two
\* digits.  (C9 adds that Resolve signals IdentifierSpaceExhausted once every
\* candidate within the cap is taken; that needs the candidates of all counters
\* of up to 20 digits to be issued, which no run within any bound reaches.)
SamLengthCap ==
    /\ \A i \in 1..Len(users) : Len(users[i].SamAccountName) <= 20
    /\ \A s \in existing_sams : Len(s) <= 20

\* A name longer than the cap has collided often enough for a two-digit counter:
\* the base is cut to 18 characters to make room for "10".
TwoDigitCounterReached ==
    \E i \in 1..Len(users) :
        LET base == BaseOf(users[i])
        IN  /\ Len(users[i].LastName) > 20
            /\ Len(base) = 20
            /\ users[i].SamAccountName = SubSeq(base, 1, 18) \o <<"1", "0">>

RoleRank(title) ==
    CASE title = "Manager" -> 1
      [] title = "Employee" -> 2
      [] title = "Contractor" -> 3

DeptRank(dept) == CHOOSE d \in 1..Len(DEPARTMENTS) : DEPARTMENTS[d] = dept

RecordsOf(dept, title) ==
    Cardinality({i \in 1..Len(result) :
                    result[i].Department = dept /\ result[i].Role = title})

PlannedCount(d, title) ==
    CASE title = "Manager" -> ROLE_DISTRIBUTION.Managers
      [] title = "Employee" ->
            dept_counts[d].count - ROLE_DISTRIBUTION.Managers - ROLE_DISTRIBUTION.Contractors
      [] title = "Contractor" -> ROLE_DISTRIBUTION.Contractors

\* The returned records are grouped by unit in input order and, within a unit,
\* in the order Manager, Employee, Contractor.
GroupedInOrder ==
    \A i, j \in 1..Len(result) :
        i < j =>
           \/ DeptRank(result[i].Department) < DeptRank(result[j].Department)
           \/ /\ result[i].Department = result[j].Department
              /\ RoleRank(result[i].Role) <= RoleRank(result[j].Role)

\* C10: the returned records are grouped by unit in input order and within each
\* unit by role (Manager, Employee, Contractor) as contiguous blocks, and the
\* number of records of each (unit, role) equals the planned count (Managers,
\* unit count - Managers - Contractors, Contractors).
C10GroupedPlannedCounts ==
    pc = "returned" =>
        /\ GroupedInOrder
        /\ \A d \in 1..Len(DEPARTMENTS) :
              \A title \in {"Manager", "Employee", "Contractor"} :
                  RecordsOf(DEPARTMENTS[d], title) = PlannedCount(d, title)

\* What the code does guarantee: the order holds in every run, and the counts
\* agree when every unit's count covers the quota.
ReturnedGroupedInOrder == pc = "returned" => GroupedInOrder

PlannedCountsWhenQuotaFits ==
    (pc = "returned" /\ ~UnderQuota) =>
        \A d \in 1..Len(DEPARTMENTS) :
            \A title \in {"Manager", "Employee", "Contractor"} :
                RecordsOf(DEPARTMENTS[d], title) = PlannedCount(d, title)

\* C6: the string returned by generate_password has length exactly the target
\* length and holds at least one uppercase letter, one lowercase letter, one
\* digit and one symbol.
C6PasswordPolicy ==
    pw_pc = "returned" =>
        /\ Len(pw_result) = length
        /\ \E i \in 1..Len(pw_result) : pw_result[i] \in UpperSet
        /\ \E i \in 1..Len(pw_result) : pw_result[i] \in LowerSet
        /\ \E i \in 1..Len(pw_result) : pw_result[i] \in DigitSet
        /\ \E i \in 1..Len(pw_result) : pw_result[i] \in SymbolSet

\* What the code does guarantee: the four classes are always present, and the
\* length is the target from 4 upwards (it is 4 below).
PasswordPolicyFromFour ==
    pw_pc = "returned" =>
        /\ Len(pw_result) = (IF length >= 4 THEN length ELSE 4)
        /\ \A class \in {UpperSet, LowerSet, DigitSet, SymbolSet} :
              \E i \in 1..Len(pw_result) : pw_result[i] \in class

\* C7: a call with a target length smaller than 4 signals InvalidPasswordLength:
\* it returns no password.
C7ShortLengthSignalled == length < 4 => pw_pc # "returned"

====
